---- MODULE Spec2Model ----
(***************************************************************************)
(* Model of the RAG engine of rag_service/rag_core.py (RAGService, its     *)
(* Local-Lexical OfflineEmbedding provider, the Chroma collection it       *)
(* persists into) and of the HTTP handlers of rag_service/app.py that      *)
(* drive it (query_rag with its one-shot repair, rebuild_index,            *)
(* clear_index, upload_document, delete_document).                         *)
(*                                                                         *)
(* A text is abstracted to the set of vectorizer features (terms) it       *)
(* contains; an embedding vector is abstracted to its width, which for the *)
(* TF-IDF provider is the size of the fitted vocabulary.                   *)
(***************************************************************************)
EXTENDS Integers, Sequences, FiniteSets, TLC

(***************************************************************************)
(* Bounds of the model.                                                    *)
(***************************************************************************)
\* widths the Remote-Encoder model may have (1..MaxRemoteDim)
MaxRemoteDim == 1
\* calls of get_rag_service per request thread
MaxCalls == 2

(***************************************************************************)
(* Program constants.                                                      *)
(***************************************************************************)
\* TfidfVectorizer(max_features=1000, ...)
max_features == 1000
\* RAGService(top_k=5)
top_k == 5

(***************************************************************************)
(* The data the model ranges over.                                         *)
(***************************************************************************)
\* features of the fixed seed corpus returned by _load_existing_documents
\* when the store holds no document
SeedTerms == {"s"}

\* questions a request may carry (already stripped, non-empty)
Questions == {{"a"}, {"q"}}

\* the characters str.strip() removes
Whitespace == {" ", "\n", "\t"}

\* questions that carry nothing: the empty one and two of whitespace only
BlankQuestions == {{}, {" "}, {" ", "\n"}}

\* question.strip(): what is left of the question without its whitespace
Strip(q) == q \ Whitespace

\* files that may lie under the documents directory
FileNames == {"a.txt", "sub/b.md", "c.xyz"}

\* the files of the ingestion runs: FileNames and a file in a
\* subdirectory that has the stem of a.txt
IngestFiles == FileNames \cup {"sub/a.md"}

\* the file lies directly in the documents directory (os.listdir sees it)
IsTopLevel(f) == f \in {"a.txt", "c.xyz"}

\* Path(f).stem
Stem(f) ==
    CASE f = "a.txt" -> "a"
      [] f = "sub/b.md" -> "b"
      [] f = "c.xyz" -> "c"
      [] f = "sub/a.md" -> "a"

\* Path(f).suffix.lower()
Suffix(f) ==
    CASE f = "a.txt" -> ".txt"
      [] f = "sub/b.md" -> ".md"
      [] f = "c.xyz" -> ".xyz"
      [] f = "sub/a.md" -> ".md"

\* the chunks _split_text_simple yields for the file's text: the features
\* of each chunk and whether its stripped length reaches 10 characters
FileChunks(f) ==
    CASE f = "a.txt" -> << [text |-> {"a", "b"}, long |-> TRUE],
                           [text |-> {"d"}, long |-> FALSE],
                           [text |-> {"a"}, long |-> TRUE] >>
      [] f = "sub/b.md" -> << [text |-> {"s"}, long |-> TRUE] >>
      [] f = "c.xyz" -> << [text |-> {"c"}, long |-> TRUE] >>
      [] f = "sub/a.md" -> << [text |-> {"e"}, long |-> TRUE] >>

Min(a, b) == IF a < b THEN a ELSE b

\* all orders in which a set of files may be enumerated
RECURSIVE Orders(_)
Orders(S) ==
    IF S = {} THEN { <<>> }
    ELSE UNION { { <<f>> \o o : o \in Orders(S \ {f}) } : f \in S }

VARIABLES
    rag,        \* the RAGService instance of the running process
    store,      \* the persisted Chroma collection "rag_documents"
    files,      \* the files under the documents directory
    last,       \* what the last operation did and returned
    sinceClear, \* a successful clear_index has run and no ingestion since
    thr,        \* the request threads racing on the engine: where each is
    fits,       \* vectorizer.fit calls since the provider was last unfitted
    widths,     \* widths of the vectors first-use embed calls handed out
    epoch,      \* how many times clear_index re-created the collection
    rag_service, \* the module global rag_service (0: None)
    built,      \* how many RAGService instances were constructed
    req,        \* the request threads calling get_rag_service
    sp,         \* a call of _split_text_simple: its arguments and locals
    ex          \* a call of _extract_text_simple: its file and locals

\* the state of the request threads that run concurrently
concVars == << thr, fits, widths, epoch, rag_service, built, req, sp, ex >>

vars == << rag, store, files, last, sinceClear, concVars >>

(***************************************************************************)
(* The Chroma collection "rag_documents".                                  *)
(*   exists  - the collection is present in the persistent client          *)
(*   dim     - the dimensionality the collection was fixed to by its first *)
(*             add (0: none yet)                                           *)
(*   entries - the stored (id, vector, text, metadata) tuples              *)
(***************************************************************************)
NoStore == [exists |-> FALSE, dim |-> 0, entries |-> {}]

\* chroma_client.create_collection(collection_name)
EmptyStore == [exists |-> TRUE, dim |-> 0, entries |-> {}]

\* collection.count()
ChromaCount(st) == Cardinality(st.entries)

\* mutant of ChromaAdd: a store that takes a vector of any width
ChromaAddUnchecked(st, e) ==
    IF \E x \in st.entries : x.id = e.id
    THEN [ok |-> TRUE, store |-> st]
    ELSE [ok |-> TRUE,
          store |-> [st EXCEPT !.dim = IF @ = 0 THEN e.dim ELSE @,
                               !.entries = @ \cup {e}]]

\* collection.add(embeddings=[..], documents=[..], metadatas=[..], ids=[..]):
\* Chroma rejects a vector whose width differs from the collection's, and
\* keeps the stored entry when the id is already present
ChromaAdd(st, e) ==
    IF st.dim # 0 /\ e.dim # st.dim
    THEN [ok |-> FALSE, store |-> st]
    ELSE IF \E x \in st.entries : x.id = e.id
    THEN [ok |-> TRUE, store |-> st]
    ELSE [ok |-> TRUE,
          store |-> [st EXCEPT !.dim = e.dim, !.entries = @ \cup {e}]]

\* collection.query(query_embeddings=[v], n_results=top_k): the entries
\* returned (which of them when more than top_k are stored is left to
\* the distance ranking, which this model does not compute)
Nearest(st) ==
    IF Cardinality(st.entries) <= top_k THEN st.entries
    ELSE CHOOSE S \in SUBSET st.entries : Cardinality(S) = top_k

\* results['metadatas'][0][:3]: the hits _offline_query cites as sources
Cited(hits) ==
    IF Cardinality(hits) <= 3 THEN hits
    ELSE CHOOSE S \in SUBSET hits : Cardinality(S) = 3

(***************************************************************************)
(* The Local-Lexical provider (OfflineEmbedding).                          *)
(***************************************************************************)
\* len(vectorizer.vocabulary_): the width of every vector transform yields
Width(vocabulary) == Min(Cardinality(vocabulary), max_features)

\* OfflineEmbedding._load_existing_documents: the texts of the store, or
\* the seed corpus when the collection is missing or empty
LoadExistingDocuments(st) ==
    IF st.exists /\ st.entries # {}
    THEN UNION { e.doc : e \in st.entries }
    ELSE SeedTerms

\* mutant of GetTextEmbedding: every call fits the vectorizer anew
GetTextEmbeddingRefit(r, st, text) ==
    LET r2 == [r EXCEPT !.is_fitted = TRUE,
                        !.vocabulary = LoadExistingDocuments(st) \cup text]
    IN [rag |-> r2, dim |-> Width(r2.vocabulary)]

\* OfflineEmbedding.get_text_embedding(text): fits on first use
GetTextEmbedding(r, st, text) ==
    LET r2 == IF r.is_fitted THEN r
              ELSE [r EXCEPT !.is_fitted = TRUE,
                             !.vocabulary = LoadExistingDocuments(st) \cup text]
    IN [rag |-> r2, dim |-> Width(r2.vocabulary)]

\* OfflineEmbedding.get_text_embedding_batch(texts): fits on first use, on
\* the stored documents extended by the batch; one width for the batch
GetTextEmbeddingBatch(r, st, texts) ==
    LET r2 == IF r.is_fitted THEN r
              ELSE [r EXCEPT !.is_fitted = TRUE,
                             !.vocabulary =
                                 LoadExistingDocuments(st) \cup UNION texts]
    IN [rag |-> r2, dim |-> Width(r2.vocabulary)]

(***************************************************************************)
(* Query results. error names the message template of the failure:         *)
(*   empty_question  "问题不能为空"                                          *)
(*   no_index        "没有找到文档索引，请先上传文档"                            *)
(*   no_docs         "没有找到相关文档"                                       *)
(*   dim_precheck    "向量维度不匹配，请重建索引。现有维度：..，当前维度：.."        *)
(*   dim_query       "向量维度不匹配: <chroma message>"                       *)
(*   offline_failed  "离线查询失败: <exception>"                              *)
(*   exception       str(e) of the exception query() caught                *)
(* fx records what the call did: embedded the question, asked the store    *)
(* for nearest vectors, invoked the Generative Answerer, and the width of  *)
(* the question vector (0: none computed).                                 *)
(* env is what the environment decides for one call:                       *)
(*   llm            the Generative Answerer answers "ok", answers "empty"  *)
(*                  text or raises ("fail")                                *)
(*   fault          the remote encoder is unreachable                      *)
(*   get_embeddings collection.get(limit=1) hands out the stored vectors   *)
(*                  (Chroma's default include leaves them out)             *)
(***************************************************************************)
NoFx == [embedded |-> FALSE, retrieved |-> FALSE, generated |-> FALSE,
         q_dim |-> 0, llm_calls |-> 0]

Failure(err, flag) ==
    [success |-> FALSE, error |-> err, dimension_mismatch |-> flag,
     answer |-> "", sources |-> {}]

Success(ans, hits) ==
    [success |-> TRUE, error |-> "", dimension_mismatch |-> FALSE,
     answer |-> ans, sources |-> { e.file : e \in hits }]

\* the placeholder where no query ran
NoResult == Failure("none", FALSE)

\* the answer of _offline_query once retrieval returned hits: the text of
\* the Generative Answerer, or the template when it raised or was empty
OfflineAnswer(llm) == IF llm = "ok" THEN "llm" ELSE "template"

\* mutant of OfflineQuery: an answerer that raised or returned nothing is
\* asked a second time before the template is used
OfflineQueryRetry(r, st, q, env) ==
    IF ~st.exists
    THEN [rag |-> r, result |-> Failure("no_index", FALSE), fx |-> NoFx]
    ELSE
    LET emb == GetTextEmbedding(r, st, q)
        fxE == [NoFx EXCEPT !.embedded = TRUE, !.q_dim = emb.dim]
        fxR == [fxE EXCEPT !.retrieved = TRUE]
    IN  IF env.get_embeddings /\ st.entries # {} /\ st.dim # emb.dim
        THEN [rag |-> emb.rag, result |-> Failure("dim_precheck", TRUE),
              fx |-> fxE]
        ELSE IF st.entries # {} /\ st.dim # emb.dim
        THEN [rag |-> emb.rag, result |-> Failure("dim_query", TRUE),
              fx |-> fxR]
        ELSE IF Nearest(st) = {}
        THEN [rag |-> emb.rag, result |-> Failure("no_docs", FALSE),
              fx |-> fxR]
        ELSE [rag |-> emb.rag,
              result |-> Success(OfflineAnswer(env.llm),
                                 Cited(Nearest(st))),
              fx |-> [fxR EXCEPT !.generated = TRUE,
                            !.llm_calls = IF env.llm = "ok" THEN 1 ELSE 2]]

\* RAGService._offline_query(question)
OfflineQuery(r, st, q, env) ==
    IF ~st.exists
    THEN [rag |-> r, result |-> Failure("no_index", FALSE), fx |-> NoFx]
    ELSE
    LET emb == GetTextEmbedding(r, st, q)
        fxE == [NoFx EXCEPT !.embedded = TRUE, !.q_dim = emb.dim]
        fxR == [fxE EXCEPT !.retrieved = TRUE]
    IN  IF env.get_embeddings /\ st.entries # {} /\ st.dim # emb.dim
        THEN [rag |-> emb.rag, result |-> Failure("dim_precheck", TRUE),
              fx |-> fxE]
        ELSE IF st.entries # {} /\ st.dim # emb.dim
        THEN [rag |-> emb.rag, result |-> Failure("dim_query", TRUE),
              fx |-> fxR]
        ELSE IF Nearest(st) = {}
        THEN [rag |-> emb.rag, result |-> Failure("no_docs", FALSE),
              fx |-> fxR]
        ELSE [rag |-> emb.rag,
              result |-> Success(OfflineAnswer(env.llm),
                                 Cited(Nearest(st))),
              fx |-> [fxR EXCEPT !.generated = TRUE, !.llm_calls = 1]]

\* the Remote-Encoder branch of RAGService.query: query_engine.query and
\* the except clause around it
OnlineQuery(r, st, q, env) ==
    LET fxR == [NoFx EXCEPT !.embedded = TRUE, !.retrieved = TRUE,
                            !.q_dim = r.remote_dim]
        fxG == [fxR EXCEPT !.generated = TRUE, !.llm_calls = 1]
    IN  IF env.fault
        THEN [rag |-> r, result |-> Failure("exception", FALSE), fx |-> NoFx]
        ELSE IF r.vs_stale \/ ~st.exists
                \/ (st.entries # {} /\ st.dim # r.remote_dim)
        THEN [rag |-> r, result |-> Failure("exception", FALSE), fx |-> fxR]
        ELSE IF st.entries = {}
        THEN [rag |-> r, result |-> Success("empty_response", {}), fx |-> fxR]
        ELSE IF env.llm = "fail"
        THEN [rag |-> r, result |-> Failure("exception", FALSE), fx |-> fxG]
        ELSE [rag |-> r,
              result |-> Success(IF env.llm = "ok" THEN "llm" ELSE "",
                                 Nearest(st)),
              fx |-> fxG]

\* mutant of Query: the question is tested as it came, not stripped
QueryUnstripped(r, st, q, env) ==
    IF q = {}
    THEN [rag |-> r, result |-> Failure("empty_question", FALSE), fx |-> NoFx]
    ELSE IF r.offline_mode THEN OfflineQuery(r, st, q, env)
    ELSE OnlineQuery(r, st, q, env)

\* RAGService.query(question); a question is blank when strip() leaves
\* nothing of it
Query(r, st, q, env) ==
    IF Strip(q) = {}
    THEN [rag |-> r, result |-> Failure("empty_question", FALSE), fx |-> NoFx]
    ELSE IF r.offline_mode THEN OfflineQuery(r, st, q, env)
    ELSE OnlineQuery(r, st, q, env)

\* RAGService.get_document_count(): 0 when the handle self.vector_store
\* no longer names a live collection
get_document_count(r, st) ==
    IF r.vs_stale \/ ~st.exists THEN 0 ELSE ChromaCount(st)

(***************************************************************************)
(* clear_index.  fault is the step of clear_index the environment makes    *)
(* raise: "client" (PersistentClient), "delete" (delete_collection),       *)
(* "create" (create_collection) or "none".                                 *)
(***************************************************************************)
ClearFaults == {"none", "client", "delete", "create"}

\* mutant of ClearIndex: the collection is deleted and not created again
ClearIndexDeleteOnly(r, st, fault) ==
    IF fault = "client"
    THEN [rag |-> r, store |-> st, ret |-> FALSE]
    ELSE
    LET deleted == IF st.exists /\ fault # "delete" THEN NoStore ELSE st
    IN  [rag |-> [r EXCEPT !.vs_stale = @ \/ (st.exists /\ ~deleted.exists),
                           !.is_fitted = IF r.offline_mode THEN FALSE ELSE @],
         store |-> deleted, ret |-> TRUE]

\* mutant of ClearIndex: the vectorizer is reset before the collection is
\* deleted and created again, whether or not that succeeds
ClearIndexUnfitFirst(r, st, fault) ==
    LET u == [r EXCEPT !.is_fitted = IF r.offline_mode THEN FALSE ELSE @]
    IN  IF fault = "client"
        THEN [rag |-> u, store |-> st, ret |-> FALSE]
        ELSE
        LET deleted == IF st.exists /\ fault # "delete" THEN NoStore ELSE st
        IN  IF deleted.exists \/ fault = "create"
            THEN [rag |-> [u EXCEPT !.vs_stale = @ \/ ~deleted.exists],
                  store |-> deleted, ret |-> FALSE]
            ELSE [rag |-> [u EXCEPT !.vs_stale = FALSE],
                  store |-> EmptyStore, ret |-> TRUE]

\* mutant of ClearIndex: the vectorizer is reset and the collection is
\* left as it is
ClearIndexKeepEntries(r, st, fault) ==
    IF fault # "none" \/ ~st.exists
    THEN [rag |-> r, store |-> st, ret |-> FALSE]
    ELSE [rag |-> [r EXCEPT !.vs_stale = FALSE,
                            !.is_fitted = IF r.offline_mode THEN FALSE ELSE @],
          store |-> st, ret |-> TRUE]

\* RAGService.clear_index()
ClearIndex(r, st, fault) ==
    IF fault = "client"
    THEN [rag |-> r, store |-> st, ret |-> FALSE]
    ELSE
    LET deleted == IF st.exists /\ fault # "delete" THEN NoStore ELSE st
    IN  IF deleted.exists \/ fault = "create"
        THEN [rag |-> [r EXCEPT !.vs_stale = @ \/ ~deleted.exists],
              store |-> deleted, ret |-> FALSE]
        ELSE [rag |-> [r EXCEPT !.vs_stale = FALSE,
                                !.is_fitted = IF r.offline_mode THEN FALSE ELSE @],
              store |-> EmptyStore, ret |-> TRUE]

(***************************************************************************)
(* Ingestion.                                                              *)
(***************************************************************************)
\* the suffixes the directory scan of _offline_add_documents keeps
ScanSuffixes == {".txt", ".md", ".pdf", ".docx"}

\* the files the rglob scan of the documents directory collects
ScanDocuments(fs) == { f \in fs : Suffix(f) \in ScanSuffixes }

\* RAGService._extract_text_simple followed by _split_text_simple: the
\* chunks of the file, none when the suffix is not a text suffix
ExtractChunks(f) ==
    IF Suffix(f) \in {".txt", ".md"} THEN FileChunks(f) ELSE << >>

\* doc_id = f"{Path(file_path).stem}_{i}"
ChunkId(f, i) == << Stem(f), i >>

\* the chunk loop of _offline_add_documents for one file; i is the ordinal
\* of the first chunk of cs.  An exception (a rejected add) ends the file.
RECURSIVE AddChunks(_, _, _, _, _)
AddChunks(r, st, f, cs, i) ==
    IF cs = << >> THEN [rag |-> r, store |-> st]
    ELSE IF ~Head(cs).long THEN AddChunks(r, st, f, Tail(cs), i + 1)
    ELSE
    LET emb == GetTextEmbedding(r, st, Head(cs).text)
        a == ChromaAdd(st, [id |-> ChunkId(f, i), dim |-> emb.dim,
                            doc |-> Head(cs).text, file |-> f])
    IN  IF ~a.ok THEN [rag |-> emb.rag, store |-> st]
        ELSE AddChunks(emb.rag, a.store, f, Tail(cs), i + 1)

\* the chunk loop for a file whose embed call raises at the chunk of
\* ordinal at: the chunks before it are stored, the exception leaves the
\* loop and the chunks after it are never reached
RECURSIVE AddChunksWith(_, _, _, _, _, _)
AddChunksWith(r, st, f, cs, i, at) ==
    IF cs = << >> THEN [rag |-> r, store |-> st]
    ELSE IF ~Head(cs).long THEN AddChunksWith(r, st, f, Tail(cs), i + 1, at)
    ELSE IF i = at THEN [rag |-> r, store |-> st]
    ELSE
    LET emb == GetTextEmbedding(r, st, Head(cs).text)
        a == ChromaAdd(st, [id |-> ChunkId(f, i), dim |-> emb.dim,
                            doc |-> Head(cs).text, file |-> f])
    IN  IF ~a.ok THEN [rag |-> emb.rag, store |-> st]
        ELSE AddChunksWith(emb.rag, a.store, f, Tail(cs), i + 1, at)

\* mutant of AddFilesWith: an exception in one file ends the file loop
RECURSIVE AddFilesUntilBad(_, _, _, _, _)
AddFilesUntilBad(r, st, fseq, bad, at) ==
    IF fseq = << >> THEN [rag |-> r, store |-> st]
    ELSE IF Head(fseq) \in bad
    THEN AddChunksWith(r, st, Head(fseq), ExtractChunks(Head(fseq)), 0, at)
    ELSE LET x == AddChunks(r, st, Head(fseq), ExtractChunks(Head(fseq)), 0)
         IN  AddFilesUntilBad(x.rag, x.store, Tail(fseq), bad, at)

\* the file loop of _offline_add_documents.  bad are the files whose
\* processing raises, at the chunk of ordinal at (0: before a chunk of
\* theirs is stored); the except clause of the loop ends such a file and
\* the loop goes on with the next one.
RECURSIVE AddFilesWith(_, _, _, _, _)
AddFilesWith(r, st, fseq, bad, at) ==
    IF fseq = << >> THEN [rag |-> r, store |-> st]
    ELSE IF Head(fseq) \in bad
    THEN LET x == AddChunksWith(r, st, Head(fseq),
                                ExtractChunks(Head(fseq)), 0, at)
         IN  AddFilesWith(x.rag, x.store, Tail(fseq), bad, at)
    ELSE LET x == AddChunks(r, st, Head(fseq), ExtractChunks(Head(fseq)), 0)
         IN  AddFilesWith(x.rag, x.store, Tail(fseq), bad, at)

\* the file loop when no file raises
RECURSIVE AddFiles(_, _, _)
AddFiles(r, st, fseq) ==
    IF fseq = << >> THEN [rag |-> r, store |-> st]
    ELSE LET x == AddChunks(r, st, Head(fseq), ExtractChunks(Head(fseq)), 0)
         IN  AddFiles(x.rag, x.store, Tail(fseq))

\* RAGService._offline_add_documents over the files fseq (the existing
\* paths given, or the scan of the documents directory); fault: opening
\* the client or the collection raises; bad: the files that raise
OfflineAddDocumentsWith(r, st, fseq, fault, bad, at) ==
    IF fseq = << >> THEN [rag |-> r, store |-> st, ret |-> TRUE]
    ELSE IF fault THEN [rag |-> r, store |-> st, ret |-> FALSE]
    ELSE LET x == AddFilesWith(r, IF st.exists THEN st ELSE EmptyStore,
                               fseq, bad, at)
         IN  [rag |-> x.rag, store |-> x.store, ret |-> TRUE]

OfflineAddDocuments(r, st, fseq, fault) ==
    IF fseq = << >> THEN [rag |-> r, store |-> st, ret |-> TRUE]
    ELSE IF fault THEN [rag |-> r, store |-> st, ret |-> FALSE]
    ELSE LET x == AddFiles(r, IF st.exists THEN st ELSE EmptyStore, fseq)
         IN  [rag |-> x.rag, store |-> x.store, ret |-> TRUE]

\* index.insert(doc) for the nodes of one file.  A node id is a fresh
\* UUID; the model keeps one entry per chunk, identifying the copies a
\* repeated ingestion of the same chunk leaves.
RECURSIVE InsertNodes(_, _, _, _, _)
InsertNodes(r, st, f, cs, i) ==
    IF cs = << >> THEN [ok |-> TRUE, store |-> st]
    ELSE
    LET a == ChromaAdd(st, [id |-> << "node", f, i >>,
                            dim |-> r.remote_dim,
                            doc |-> Head(cs).text, file |-> f])
    IN  IF ~a.ok THEN [ok |-> FALSE, store |-> st]
        ELSE InsertNodes(r, a.store, f, Tail(cs), i + 1)

\* the insert loop of add_documents; an insert that raises (a file of
\* bad, whose embedding raises) ends the loop
RECURSIVE InsertFilesWith(_, _, _, _)
InsertFilesWith(r, st, fseq, bad) ==
    IF fseq = << >> THEN [ok |-> TRUE, store |-> st]
    ELSE IF Head(fseq) \in bad THEN [ok |-> FALSE, store |-> st]
    ELSE LET x == InsertNodes(r, st, Head(fseq), FileChunks(Head(fseq)), 0)
         IN  IF ~x.ok THEN x ELSE InsertFilesWith(r, x.store, Tail(fseq), bad)

InsertFiles(r, st, fseq) == InsertFilesWith(r, st, fseq, {})

\* the Remote-Encoder branch of RAGService.add_documents: load the files,
\* insert every document through the index; any exception returns False
OnlineAddDocumentsWith(r, st, fseq, fault, bad) ==
    IF fseq = << >> THEN [rag |-> r, store |-> st, ret |-> TRUE]
    ELSE IF fault \/ r.vs_stale \/ ~st.exists
    THEN [rag |-> r, store |-> st, ret |-> FALSE]
    ELSE LET x == InsertFilesWith(r, st, fseq, bad)
         IN  [rag |-> r, store |-> x.store, ret |-> x.ok]

OnlineAddDocuments(r, st, fseq, fault) ==
    OnlineAddDocumentsWith(r, st, fseq, fault, {})

\* RAGService.add_documents(file_paths), with the files that raise and
\* the chunk ordinal at which they do
AddDocumentsWith(r, st, fseq, fault, bad, at) ==
    IF r.offline_mode
    THEN OfflineAddDocumentsWith(r, st, fseq, fault, bad, at)
    ELSE OnlineAddDocumentsWith(r, st, fseq, fault, bad)

\* RAGService.add_documents(file_paths) when no file raises
AddDocuments(r, st, fseq, fault) ==
    IF r.offline_mode THEN OfflineAddDocuments(r, st, fseq, fault)
    ELSE OnlineAddDocuments(r, st, fseq, fault)

\* the files add_documents() processes when called without paths
IngestSet(r, fs) == IF r.offline_mode THEN ScanDocuments(fs) ELSE fs

(***************************************************************************)
(* The /api/query handler query_rag and its one-shot repair.               *)
(***************************************************************************)
\* the error text contains "没有找到相关文档" or "没有找到文档索引"
NoDocsText(err) == err \in {"no_index", "no_docs"}

\* the files os.listdir(documents_path) reports as regular files
FileCount(fs) == Cardinality({ f \in fs : IsTopLevel(f) })

\* the first query failed with one of the no-document messages, so the
\* handler asks for the document count
AsksCount(res) ==
    ~res.success /\ ~res.dimension_mismatch /\ NoDocsText(res.error)

\* mutant of RebuildReason: only a dimension mismatch starts the repair
RebuildReasonMismatchOnly(res, doc_count, file_count) ==
    IF res.success THEN ""
    ELSE IF res.dimension_mismatch THEN "dimension"
    ELSE ""

\* mutant of RebuildReason: a miss on an empty index repairs whether or
\* not the documents directory holds a file
RebuildReasonAnyMiss(res, doc_count, file_count) ==
    IF res.success THEN ""
    ELSE IF res.dimension_mismatch THEN "dimension"
    ELSE IF NoDocsText(res.error) /\ doc_count = 0 THEN "files"
    ELSE ""

\* the repair decision of query_rag: the rebuild reason, "" for none
\*   "dimension"  "向量维度不匹配"
\*   "files"      "发现<n>个文档文件但索引为空"
RebuildReason(res, doc_count, file_count) ==
    IF res.success THEN ""
    ELSE IF res.dimension_mismatch THEN "dimension"
    ELSE IF NoDocsText(res.error) /\ doc_count = 0 /\ file_count > 0
    THEN "files"
    ELSE ""

\* the JSON body returned: the query result and the keys the handler adds
\* (FALSE or "" where the key is absent)
Annotate(res, rebuilt, attempted, reason, failed) ==
    [result |-> res, rebuilt_index |-> rebuilt, rebuild_attempted |-> attempted,
     rebuild_reason |-> reason, rebuild_failed |-> failed]

\* mutant of Repair: a failed re-issued query starts the repair again
RepairAgain(r, st, fs, q, reason, first, in) ==
    LET c == ClearIndex(r, st, in.cfault)
        a == AddDocuments(c.rag, c.store, in.order, in.afault)
        q2 == Query(a.rag, a.store, q, in.env2)
        c2 == ClearIndex(q2.rag, a.store, in.cfault)
        a2 == AddDocuments(c2.rag, c2.store, in.order, in.afault)
        q3 == Query(a2.rag, a2.store, q, in.env2)
    IN  IF ~c.ret \/ ~a.ret \/ q2.result.success \/ ~c2.ret \/ ~a2.ret
        THEN [rag |-> q2.rag, store |-> a.store,
              calls |-> IF ~c.ret THEN << "clear_index" >>
                        ELSE IF ~a.ret THEN << "clear_index", "add_documents" >>
                        ELSE << "clear_index", "add_documents", "query" >>,
              clear_ok |-> c.ret, add_ok |-> c.ret /\ a.ret,
              second |-> IF c.ret /\ a.ret THEN q2.result ELSE NoResult,
              second_fx |-> IF c.ret /\ a.ret THEN q2.fx ELSE NoFx,
              response |-> Annotate(IF c.ret /\ a.ret THEN q2.result ELSE first,
                                    c.ret /\ a.ret /\ q2.result.success,
                                    c.ret /\ a.ret /\ ~q2.result.success,
                                    IF c.ret /\ a.ret THEN reason ELSE "",
                                    IF ~c.ret THEN "clear"
                                    ELSE IF ~a.ret THEN "add" ELSE "")]
        ELSE [rag |-> q3.rag, store |-> a2.store,
              calls |-> << "clear_index", "add_documents", "query",
                           "clear_index", "add_documents", "query" >>,
              clear_ok |-> TRUE, add_ok |-> TRUE,
              second |-> q3.result, second_fx |-> q3.fx,
              response |-> Annotate(q3.result, q3.result.success,
                                    ~q3.result.success, reason, "")]

\* mutant of Repair: the response keeps the result of the first query
RepairFirstResponse(r, st, fs, q, reason, first, in) ==
    LET c == ClearIndex(r, st, in.cfault)
        a == AddDocuments(c.rag, c.store, in.order, in.afault)
        q2 == Query(a.rag, a.store, q, in.env2)
        ok == c.ret /\ a.ret
    IN  [rag |-> IF ok THEN q2.rag ELSE IF c.ret THEN a.rag ELSE c.rag,
         store |-> IF c.ret THEN a.store ELSE c.store,
         calls |-> IF ~c.ret THEN << "clear_index" >>
                   ELSE IF ~a.ret THEN << "clear_index", "add_documents" >>
                   ELSE << "clear_index", "add_documents", "query" >>,
         clear_ok |-> c.ret, add_ok |-> ok,
         second |-> IF ok THEN q2.result ELSE NoResult,
         second_fx |-> IF ok THEN q2.fx ELSE NoFx,
         response |-> Annotate(first, ok /\ q2.result.success,
                               ok /\ ~q2.result.success,
                               IF ok THEN reason ELSE "",
                               IF ~c.ret THEN "clear"
                               ELSE IF ~a.ret THEN "add" ELSE "")]

\* the "if needs_rebuild:" block of query_rag. in holds what the
\* environment decides during the request: env1 and env2 for the two
\* queries, the faults of clear_index and add_documents, the scan order.
Repair(r, st, fs, q, reason, first, in) ==
    LET c == ClearIndex(r, st, in.cfault)
    IN  IF ~c.ret
        THEN [rag |-> c.rag, store |-> c.store, calls |-> << "clear_index" >>,
              clear_ok |-> FALSE, add_ok |-> FALSE,
              second |-> NoResult, second_fx |-> NoFx,
              response |-> Annotate(first, FALSE, FALSE, "", "clear")]
        ELSE
        LET a == AddDocuments(c.rag, c.store, in.order, in.afault)
        IN  IF ~a.ret
            THEN [rag |-> a.rag, store |-> a.store,
                  calls |-> << "clear_index", "add_documents" >>,
                  clear_ok |-> TRUE, add_ok |-> FALSE,
                  second |-> NoResult, second_fx |-> NoFx,
                  response |-> Annotate(first, FALSE, FALSE, "", "add")]
            ELSE
            LET q2 == Query(a.rag, a.store, q, in.env2)
            IN  [rag |-> q2.rag, store |-> a.store,
                 calls |-> << "clear_index", "add_documents", "query" >>,
                 clear_ok |-> TRUE, add_ok |-> TRUE,
                 second |-> q2.result, second_fx |-> q2.fx,
                 response |->
                    IF q2.result.success
                    THEN Annotate(q2.result, TRUE, FALSE, reason, "")
                    ELSE Annotate(q2.result, FALSE, TRUE, reason, "")]

\* query_rag for a non-blank question
QueryRagHandler(r, st, fs, q, in) ==
    LET q1 == Query(r, st, q, in.env1)
        reason == RebuildReason(q1.result, get_document_count(q1.rag, st),
                                FileCount(fs))
        calls1 == IF AsksCount(q1.result)
                  THEN << "query", "get_document_count" >>
                  ELSE << "query" >>
    IN  IF reason = ""
        THEN [rag |-> q1.rag, store |-> st, calls |-> calls1,
              clear_ok |-> FALSE, add_ok |-> FALSE,
              first |-> q1.result, first_fx |-> q1.fx,
              second |-> NoResult, second_fx |-> NoFx,
              reason |-> reason,
              response |-> Annotate(q1.result, FALSE, FALSE, "", "")]
        ELSE LET rep == Repair(q1.rag, st, fs, q, reason, q1.result, in)
             IN  [rag |-> rep.rag, store |-> rep.store,
                  calls |-> calls1 \o rep.calls,
                  clear_ok |-> rep.clear_ok, add_ok |-> rep.add_ok,
                  first |-> q1.result, first_fx |-> q1.fx,
                  second |-> rep.second, second_fx |-> rep.second_fx,
                  reason |-> reason, response |-> rep.response]

(***************************************************************************)
(* The sequential system: one process, one request at a time.              *)
(* last keeps, of the last operation: its name, the engine calls it made   *)
(* in order, the results of its first and second query, the repair reason, *)
(* the response, what clear_index and add_documents returned, and of the   *)
(* state it started in: whether a successful clear_index had just run,     *)
(* the stored width (0: empty) and the entry count.                        *)
(***************************************************************************)
LlmOutcomes == {"ok", "empty", "fail"}

\* the environments a query call of the engine r can meet
QueryEnvs(r) ==
    IF r.offline_mode
    THEN [llm : LlmOutcomes, fault : {FALSE}, get_embeddings : BOOLEAN]
    ELSE [llm : LlmOutcomes, fault : {FALSE}, get_embeddings : {FALSE}]
         \cup {[llm |-> "ok", fault |-> TRUE, get_embeddings |-> FALSE]}

\* the environments of E of the same Chroma build as e
SameBuild(E, e) == { x \in E : x.get_embeddings = e.get_embeddings }

\* the outcome of the Generative Answerer is drawn only in a call that
\* invokes it
Drawn(env, fx) == fx.generated \/ env.llm = "ok"

\* the body of rebuild_index: clear_index, whose result is ignored, then
\* add_documents()
Rebuild(r, st, order, cf, af) ==
    LET c == ClearIndex(r, st, cf)
    IN  AddDocuments(c.rag, c.store, order, af)

\* the suffixes allowed_file accepts (those among the model's files)
AllowedSuffixes == {".txt", ".md"}

NoLast ==
    [op |-> "none", calls |-> << >>, first |-> NoResult,
     first_fx |-> NoFx, second |-> NoResult, reason |-> "",
     response |-> Annotate(NoResult, FALSE, FALSE, "", ""),
     ret |-> TRUE, clear_ok |-> FALSE, add_ok |-> FALSE,
     pre_cleared |-> FALSE, pre_dim |-> 0, pre_count |-> 0,
     pre_fitted |-> FALSE, pre_attempted |-> FALSE,
     setup |-> [has_internet |-> FALSE, loaded |-> FALSE, cached |-> FALSE],
     order |-> << >>, bad |-> {}, at |-> 0, fault |-> FALSE,
     blank |-> FALSE]

\* what _setup_embedding can meet: the probe of the encoder endpoint
\* answers (has_internet), the encoder then loads (loaded), or it loads
\* from the local cache after the first load failed (cached)
Setups ==
    { e \in [has_internet : BOOLEAN, loaded : BOOLEAN, cached : BOOLEAN] :
         /\ e.loaded => e.has_internet
         /\ e.cached => (e.has_internet /\ ~e.loaded) }

\* mutant of SetupEmbedding: the variant follows the probe alone
SetupEmbeddingByProbe(e) == ~e.has_internet

\* RAGService._setup_embedding: TRUE when it ends in offline_mode
SetupEmbedding(e) ==
    IF e.has_internet /\ (e.loaded \/ e.cached) THEN FALSE ELSE TRUE

\* RAGService.__init__: the provider variant chosen by _setup_embedding
Construct(offline, rdim) ==
    [offline_mode |-> offline, remote_dim |-> IF offline THEN 0 ELSE rdim,
     is_fitted |-> FALSE, vocabulary |-> {}, vs_stale |-> FALSE]

\* RAGService._setup_vector_store: get the collection or create it
SetupVectorStore(st) == IF st.exists THEN st ELSE EmptyStore

\* the threads of the two concurrent scenarios, at rest
RaceThreads == {"rebuild", "query"}

IdleThread ==
    [pc |-> "idle", text |-> {}, training |-> {}, first_use |-> FALSE,
     vec |-> 0, handle |-> 0, items |-> << >>, result |-> NoResult]

RequestThreads == {"t1", "t2", "t3"}

IdleRequest == [pc |-> "idle", calls |-> 0, tmp |-> 0, got |-> {}]

\* no call of _split_text_simple is running
IdleSplit ==
    [pc |-> "idle", text |-> << >>, chunk_size |-> 0, overlap |-> 0,
     start |-> 0, wins |-> << >>, chunks |-> << >>]

\* no call of _extract_text_simple is running
IdleExtract ==
    [pc |-> "idle", suffix |-> "", pages |-> << >>, pypdf |-> FALSE,
     n |-> 0, text |-> << >>, ret |-> << >>]

Init ==
    /\ \E e \in Setups, rdim \in 1..MaxRemoteDim :
          /\ rag = Construct(SetupEmbedding(e), rdim)
          /\ last = [NoLast EXCEPT !.op = "construct", !.setup = e]
    /\ store = EmptyStore
    /\ files = {}
    /\ sinceClear = FALSE
    /\ thr = [t \in RaceThreads |-> IdleThread]
    /\ fits = 0
    /\ widths = {}
    /\ epoch = 0
    /\ rag_service = 1
    /\ built = 1
    /\ req = [t \in RequestThreads |-> IdleRequest]
    /\ sp = IdleSplit
    /\ ex = IdleExtract

\* POST /api/query.  The environment's choices for a repair step are
\* drawn only in the requests that reach the step.
QueryRag ==
    \E q \in Questions, e1 \in QueryEnvs(rag) :
    \E q1 \in {Query(rag, store, q, e1)} :
    \E needs \in {RebuildReason(q1.result, get_document_count(q1.rag, store),
                                FileCount(files)) # ""} :
    \E cf \in (IF needs THEN ClearFaults ELSE {"none"}) :
    \E adds \in {needs /\ ClearIndex(q1.rag, store, cf).ret} :
    \E af \in (IF adds THEN BOOLEAN ELSE {FALSE}),
       order \in (IF adds THEN Orders(IngestSet(rag, files)) ELSE {<< >>}) :
    \E e2 \in (IF adds /\ ~af THEN SameBuild(QueryEnvs(rag), e1)
               ELSE {e1}) :
    \E h \in {QueryRagHandler(rag, store, files, q,
                 [env1 |-> e1, env2 |-> e2, cfault |-> cf, afault |-> af,
                  order |-> order])} :
       /\ Drawn(e1, q1.fx)
       /\ Drawn(e2, h.second_fx)
       /\ rag' = h.rag
       /\ store' = h.store
       /\ last' = [NoLast EXCEPT !.op = "query_rag",
                      !.calls = h.calls, !.first = h.first,
                      !.first_fx = h.first_fx, !.second = h.second,
                      !.reason = h.reason, !.response = h.response,
                      !.clear_ok = h.clear_ok, !.add_ok = h.add_ok,
                      !.pre_cleared = sinceClear,
                      !.pre_dim = IF store.entries = {} THEN 0 ELSE store.dim,
                      !.pre_count = ChromaCount(store),
                      !.pre_attempted = last.response.rebuild_attempted]
       /\ sinceClear' = (sinceClear /\ h.reason = "")
       /\ UNCHANGED files
       /\ UNCHANGED concVars

\* mutant of QueryCall: the query opens the collection with
\* get_or_create_collection, which creates a missing collection
QueryCallCreating ==
    \E q \in Questions \cup BlankQuestions, e \in QueryEnvs(rag) :
       \E r \in {Query(rag, store, q, e)} :
           /\ Drawn(e, r.fx)
           /\ rag' = r.rag
           /\ last' = [NoLast EXCEPT !.op = "query",
                          !.calls = << "query" >>, !.first = r.result,
                          !.first_fx = r.fx,
                          !.response = Annotate(r.result, FALSE, FALSE, "", ""),
                          !.blank = (q \subseteq Whitespace),
                          !.pre_cleared = sinceClear,
                          !.pre_dim = IF store.entries = {} THEN 0
                                      ELSE store.dim,
                          !.pre_count = ChromaCount(store)]
           /\ store' = SetupVectorStore(store)
           /\ UNCHANGED << files, sinceClear >>
           /\ UNCHANGED concVars

\* a direct call of RAGService.query (the engine operation of the CLI
\* scripts); the blank question {} is among the inputs
QueryCall ==
    \E q \in Questions \cup BlankQuestions, e \in QueryEnvs(rag) :
       \E r \in {Query(rag, store, q, e)} :
           /\ Drawn(e, r.fx)
           /\ rag' = r.rag
           /\ last' = [NoLast EXCEPT !.op = "query",
                          !.calls = << "query" >>, !.first = r.result,
                          !.first_fx = r.fx,
                          !.response = Annotate(r.result, FALSE, FALSE, "", ""),
                          !.blank = (q \subseteq Whitespace),
                          !.pre_cleared = sinceClear,
                          !.pre_dim = IF store.entries = {} THEN 0
                                      ELSE store.dim,
                          !.pre_count = ChromaCount(store)]
           /\ UNCHANGED << store, files, sinceClear >>
           /\ UNCHANGED concVars

\* POST /api/upload: save the file into the documents directory, then
\* add_documents([file_path])
UploadDocument ==
    \E f \in FileNames, af \in BOOLEAN :
       /\ IsTopLevel(f) /\ Suffix(f) \in AllowedSuffixes
       /\ \E a \in {AddDocuments(rag, store, << f >>, af)} :
              /\ rag' = a.rag
              /\ store' = a.store
              /\ last' = [NoLast EXCEPT !.op = "upload",
                             !.calls = << "add_documents" >>, !.ret = a.ret]
       /\ files' = files \cup {f}
       /\ sinceClear' = FALSE
       /\ UNCHANGED concVars

\* DELETE /api/documents/<filename>: removes the file, not its entries
DeleteDocument ==
    \E f \in files :
       /\ IsTopLevel(f)
       /\ files' = files \ {f}
       /\ last' = [NoLast EXCEPT !.op = "delete"]
       /\ UNCHANGED << rag, store, sinceClear >>
       /\ UNCHANGED concVars

\* a file is put under the documents directory from outside the service
PutFile ==
    \E f \in FileNames \ files :
       /\ files' = files \cup {f}
       /\ last' = [NoLast EXCEPT !.op = "put"]
       /\ UNCHANGED << rag, store, sinceClear >>
       /\ UNCHANGED concVars

\* POST /api/index/rebuild: clear_index (result ignored), add_documents()
RebuildIndex ==
    \E cf \in ClearFaults, af \in BOOLEAN,
       order \in Orders(IngestSet(rag, files)) :
       \E a \in {Rebuild(rag, store, order, cf, af)} :
           /\ rag' = a.rag
           /\ store' = a.store
           /\ last' = [NoLast EXCEPT !.op = "rebuild",
                          !.calls = << "clear_index", "add_documents" >>,
                          !.ret = a.ret,
                          !.clear_ok = ClearIndex(rag, store, cf).ret]
           /\ sinceClear' = FALSE
           /\ UNCHANGED files
           /\ UNCHANGED concVars

\* POST /api/index/clear
ClearIndexCall ==
    \E cf \in ClearFaults :
       \E c \in {ClearIndex(rag, store, cf)} :
           /\ rag' = c.rag
           /\ store' = c.store
           /\ last' = [NoLast EXCEPT !.op = "clear",
                          !.calls = << "clear_index" >>, !.ret = c.ret,
                          !.clear_ok = c.ret, !.pre_cleared = sinceClear]
           /\ sinceClear' = c.ret
           /\ UNCHANGED files
           /\ UNCHANGED concVars

\* the process is restarted: a new RAGService is constructed over the
\* persisted store, with whichever provider variant the probe selects
Restart ==
    \E e \in Setups, rdim \in 1..MaxRemoteDim :
       /\ rag' = Construct(SetupEmbedding(e), rdim)
       /\ store' = SetupVectorStore(store)
       /\ last' = [NoLast EXCEPT !.op = "restart", !.setup = e]
       /\ sinceClear' = FALSE
       /\ UNCHANGED files
       /\ UNCHANGED concVars

Next ==
    \/ QueryRag
    \/ QueryCall
    \/ UploadDocument
    \/ DeleteDocument
    \/ PutFile
    \/ RebuildIndex
    \/ ClearIndexCall
    \/ Restart

Spec == Init /\ [][Next]_vars

(***************************************************************************)
(* Properties of the sequential system.                                    *)
(***************************************************************************)
\* how often the call x occurs in the call sequence cs
CountOf(cs, x) == Cardinality({ i \in DOMAIN cs : cs[i] = x })

\* the engine calls of the request that change or query the index
IsEngineStep(x) == x # "get_document_count"

Steps(cs) == SelectSeq(cs, IsEngineStep)

\* the result is one of the two "nothing found" failures
NotFound(res) == ~res.success /\ res.error \in {"no_index", "no_docs"}

\* the last operation was a query_rag request that decided to repair
Repaired == last.op = "query_rag" /\ last.reason # ""

\* the last operation ran RAGService.query first, on a non-blank question
Queried ==
    last.op \in {"query", "query_rag"} /\ last.first.error # "empty_question"

\* C1: a query_rag request makes at most one clear_index call, at most one
\* add_documents call and at most two query calls, and when the re-issued
\* query fails too the request ends there: the failed query is its last
\* call and it has cleared the index once.
C1_OneShotRepair ==
    last.op = "query_rag" =>
        /\ CountOf(last.calls, "clear_index") <= 1
        /\ CountOf(last.calls, "add_documents") <= 1
        /\ CountOf(last.calls, "query") <= 2
        /\ (last.add_ok /\ ~last.second.success =>
               /\ last.calls[Len(last.calls)] = "query"
               /\ last.response.result = last.second)

\* C1 witness: a request that repaired and whose re-issued query failed
C1_Witness ==
    /\ Repaired
    /\ CountOf(last.calls, "query") = 2
    /\ ~last.second.success

\* C2: query_rag repairs exactly when its first query failed with a
\* dimension mismatch, or failed with nothing found while the collection
\* holds no entry and the documents directory lists a file; otherwise it
\* calls neither clear_index nor add_documents and answers with the first
\* result unchanged.
C2_RepairIff ==
    last.op = "query_rag" =>
        LET trigger ==
                /\ ~last.first.success
                /\ \/ last.first.dimension_mismatch
                   \/ /\ NotFound(last.first)
                      /\ last.pre_count = 0
                      /\ FileCount(files) >= 1
        IN  /\ trigger <=> CountOf(last.calls, "clear_index") = 1
            /\ trigger <=> last.reason # ""
            /\ ~trigger =>
                  /\ CountOf(last.calls, "add_documents") = 0
                  /\ last.response = Annotate(last.first, FALSE, FALSE, "", "")

\* C2 witness: nothing found, files on disk, and the request repaired
C2_Witness ==
    /\ Repaired
    /\ NotFound(last.first)
    /\ last.reason = "files"
    /\ CountOf(last.calls, "clear_index") = 1

\* C3 as claimed: every request that decides to repair runs clear_index,
\* add_documents, query in that order and answers with the re-issued
\* query's result.
C3_AlwaysFullCycle ==
    Repaired =>
        /\ Steps(last.calls) =
              << "query", "clear_index", "add_documents", "query" >>
        /\ last.response.result = last.second

\* C3 amended: a request that decides to repair runs clear_index first;
\* add_documents runs exactly when clear_index returned true, and the
\* query is re-issued, once, exactly when add_documents returned true;
\* the response is the re-issued query's result when it ran, and
\* otherwise the first result with rebuild_failed naming the failed step.
C3_CycleStopsAtFailure ==
    Repaired =>
        \/ /\ ~last.clear_ok
           /\ Steps(last.calls) = << "query", "clear_index" >>
           /\ last.response.result = last.first
           /\ last.response.rebuild_failed = "clear"
        \/ /\ last.clear_ok /\ ~last.add_ok
           /\ Steps(last.calls) = << "query", "clear_index", "add_documents" >>
           /\ last.response.result = last.first
           /\ last.response.rebuild_failed = "add"
        \/ /\ last.clear_ok /\ last.add_ok
           /\ Steps(last.calls) =
                 << "query", "clear_index", "add_documents", "query" >>
           /\ last.response.result = last.second
           /\ last.response.rebuild_failed = ""

\* C3 witness: a full cycle whose re-issued query succeeded where the
\* first had failed
C3_Witness ==
    /\ Repaired
    /\ last.clear_ok /\ last.add_ok
    /\ last.second.success
    /\ last.response.result # last.first

\* the response carries one of the keys the handler sets after a repair
Marked(resp) ==
    resp.rebuild_attempted \/ resp.rebuilt_index \/ resp.rebuild_failed # ""

\* C4: the response of a request that repaired carries a repair marker
\* and the repair reason whichever step failed, and rebuilt_index when
\* the re-issued query succeeded.
C4_RepairAnnotated ==
    Repaired =>
        /\ Marked(last.response)
        /\ last.response.rebuild_reason = last.reason
        /\ (last.add_ok /\ last.second.success => last.response.rebuilt_index)

\* C5: a query that computes a question vector whose width differs from
\* the width stored in the non-empty collection fails flagged as a
\* dimension mismatch, without asking the store for nearest vectors.
C5_MismatchFlagged ==
    (/\ Queried
     /\ last.pre_dim # 0
     /\ last.first_fx.q_dim # 0
     /\ last.first_fx.q_dim # last.pre_dim) =>
        /\ ~last.first.success
        /\ last.first.dimension_mismatch
        /\ ~last.first_fx.retrieved

\* C6: a query on a non-blank question right after a successful
\* clear_index, before any ingestion, that reaches the store (its
\* provider answered) fails with nothing found.
C6_NotFoundAfterClear ==
    (Queried /\ last.pre_cleared /\ last.first_fx.retrieved) =>
        NotFound(last.first)

RaceFiles == {{"a.txt"}, {"a.txt", "sub/b.md"}}

\* the chunks of one file the chunk loop embeds and stores: those whose
\* stripped length reaches 10, with their ordinals
RECURSIVE ItemsOf(_, _, _)
ItemsOf(f, cs, i) ==
    IF cs = << >> THEN << >>
    ELSE (IF Head(cs).long
          THEN << [file |-> f, i |-> i, text |-> Head(cs).text] >>
          ELSE << >>) \o ItemsOf(f, Tail(cs), i + 1)

\* the chunks of the files fseq, in the order the loops visit them
RECURSIVE ChunkItems(_)
ChunkItems(fseq) ==
    IF fseq = << >> THEN << >>
    ELSE ItemsOf(Head(fseq), ExtractChunks(Head(fseq)), 0)
         \o ChunkItems(Tail(fseq))

\* the except clause of the file loop: the rest of the file is given up
RECURSIVE SkipFile(_, _)
SkipFile(items, f) ==
    IF items = << >> \/ Head(items).file # f THEN items
    ELSE SkipFile(Tail(items), f)

\* the thread goes on to embed the first of items, or is done
Proceed(t, items) ==
    IF items = << >>
    THEN [thr EXCEPT ![t].pc = "done", ![t].items = items]
    ELSE [thr EXCEPT ![t].pc = "check", ![t].items = items,
                     ![t].text = Head(items).text]

\* the engine is the Local-Lexical one; the store is empty or holds what a
\* rebuild of the same process ingested from the documents directory
InitRace ==
    /\ files \in RaceFiles
    /\ \E pre \in BOOLEAN, order \in Orders(ScanDocuments(files)) :
          \E x \in {IF pre
                    THEN AddDocuments(Construct(TRUE, 0), EmptyStore,
                                      order, FALSE)
                    ELSE [rag |-> Construct(TRUE, 0), store |-> EmptyStore,
                          ret |-> TRUE]} :
              /\ rag = x.rag
              /\ store = x.store
    /\ last = NoLast
    /\ sinceClear = FALSE
    /\ thr = [t \in RaceThreads |-> IdleThread]
    /\ fits = 0
    /\ widths = {}
    /\ epoch = 0
    /\ rag_service = 1
    /\ built = 1
    /\ req = [t \in RequestThreads |-> IdleRequest]
    /\ sp = IdleSplit
    /\ ex = IdleExtract

\* what no step of the race changes
RaceFrame ==
    UNCHANGED << files, sinceClear, rag_service, built, req, sp, ex >>

\* rebuild_index calls rag.clear_index()
RebuildBegin ==
    /\ thr["rebuild"].pc = "idle"
    /\ thr' = [thr EXCEPT !["rebuild"].pc = "delete"]
    /\ UNCHANGED << rag, store, last, fits, widths, epoch >>
    /\ RaceFrame

\* clear_index: chroma_client.delete_collection(collection_name)
ClearDelete ==
    /\ thr["rebuild"].pc = "delete"
    /\ store' = NoStore
    /\ thr' = [thr EXCEPT !["rebuild"].pc = "create"]
    /\ UNCHANGED << rag, last, fits, widths, epoch >>
    /\ RaceFrame

\* clear_index: chroma_client.create_collection(collection_name)
ClearCreate ==
    /\ thr["rebuild"].pc = "create"
    /\ store' = EmptyStore
    /\ epoch' = epoch + 1
    /\ thr' = [thr EXCEPT !["rebuild"].pc = "unfit"]
    /\ UNCHANGED << rag, last, fits, widths >>
    /\ RaceFrame

\* clear_index: self.embed_model.is_fitted = False
ClearUnfit ==
    /\ thr["rebuild"].pc = "unfit"
    /\ rag' = [rag EXCEPT !.is_fitted = FALSE]
    /\ fits' = 0
    /\ widths' = {}
    /\ thr' = [thr EXCEPT !["rebuild"].pc = "scan"]
    /\ UNCHANGED << store, last, epoch >>
    /\ RaceFrame

\* rebuild_index calls rag.add_documents(): the directory scan and
\* get_collection / create_collection of _offline_add_documents
IngestScan ==
    /\ thr["rebuild"].pc = "scan"
    /\ \E order \in Orders(ScanDocuments(files)) :
          thr' = Proceed("rebuild", ChunkItems(order))
    /\ store' = SetupVectorStore(store)
    /\ UNCHANGED << rag, last, fits, widths, epoch >>
    /\ RaceFrame

\* get_text_embedding: "if not self.is_fitted:"
EmbedCheck(t) ==
    /\ thr[t].pc = "check"
    /\ thr' = [thr EXCEPT ![t].pc = IF rag.is_fitted THEN "transform"
                                    ELSE "load",
                          ![t].first_use = ~rag.is_fitted]
    /\ UNCHANGED << rag, store, last, fits, widths, epoch >>
    /\ RaceFrame

\* get_text_embedding: training_docs = self._load_existing_documents();
\* training_docs.append(text)
EmbedLoad(t) ==
    /\ thr[t].pc = "load"
    /\ thr' = [thr EXCEPT ![t].pc = "fit",
                          ![t].training =
                              LoadExistingDocuments(store) \cup thr[t].text]
    /\ UNCHANGED << rag, store, last, fits, widths, epoch >>
    /\ RaceFrame

\* get_text_embedding: self.vectorizer.fit(training_docs)
EmbedFit(t) ==
    /\ thr[t].pc = "fit"
    /\ rag' = [rag EXCEPT !.vocabulary = thr[t].training]
    /\ fits' = fits + 1
    /\ thr' = [thr EXCEPT ![t].pc = "set"]
    /\ UNCHANGED << store, last, widths, epoch >>
    /\ RaceFrame

\* get_text_embedding: self.is_fitted = True
EmbedSet(t) ==
    /\ thr[t].pc = "set"
    /\ rag' = [rag EXCEPT !.is_fitted = TRUE]
    /\ thr' = [thr EXCEPT ![t].pc = "transform"]
    /\ UNCHANGED << store, last, fits, widths, epoch >>
    /\ RaceFrame

\* get_text_embedding: vector = self.vectorizer.transform([text]), and
\* the return to the caller
EmbedTransform(t) ==
    /\ thr[t].pc = "transform"
    /\ thr' = [thr EXCEPT ![t].pc = IF t = "rebuild" THEN "add" ELSE "run",
                          ![t].vec = Width(rag.vocabulary)]
    /\ widths' = IF thr[t].first_use
                 THEN widths \cup {Width(rag.vocabulary)} ELSE widths
    /\ UNCHANGED << rag, store, last, fits, epoch >>
    /\ RaceFrame

\* _offline_add_documents: collection.add of the chunk just embedded;
\* a rejected add raises and the file loop continues with the next file
IngestAdd ==
    /\ thr["rebuild"].pc = "add"
    /\ LET it == Head(thr["rebuild"].items)
           a == ChromaAdd(store, [id |-> ChunkId(it.file, it.i),
                                  dim |-> thr["rebuild"].vec,
                                  doc |-> it.text, file |-> it.file])
       IN  /\ store' = a.store
           /\ thr' = Proceed("rebuild",
                             IF a.ok THEN Tail(thr["rebuild"].items)
                             ELSE SkipFile(thr["rebuild"].items, it.file))
    /\ UNCHANGED << rag, last, fits, widths, epoch >>
    /\ RaceFrame

\* a request thread enters RAGService.query with a non-blank question
QueryBegin ==
    /\ thr["query"].pc = "idle"
    /\ \E q \in Questions :
          thr' = [thr EXCEPT !["query"].pc = "get", !["query"].text = q]
    /\ UNCHANGED << rag, store, last, fits, widths, epoch >>
    /\ RaceFrame

\* _offline_query: chroma_client.get_collection(collection_name)
QueryGet ==
    /\ thr["query"].pc = "get"
    /\ thr' = IF store.exists
              THEN [thr EXCEPT !["query"].pc = "check",
                               !["query"].handle = epoch]
              ELSE [thr EXCEPT !["query"].pc = "done",
                               !["query"].result = Failure("no_index", FALSE)]
    /\ UNCHANGED << rag, store, last, fits, widths, epoch >>
    /\ RaceFrame

\* _offline_query: collection.get / collection.query with the question
\* vector, on the collection object got before
QueryRun ==
    /\ thr["query"].pc = "run"
    /\ \E llm \in LlmOutcomes :
       LET v == thr["query"].vec
           res == IF ~store.exists \/ thr["query"].handle # epoch
                  THEN Failure("offline_failed", FALSE)
                  ELSE IF store.entries # {} /\ store.dim # v
                  THEN Failure("dim_query", TRUE)
                  ELSE IF Nearest(store) = {}
                  THEN Failure("no_docs", FALSE)
                  ELSE Success(OfflineAnswer(llm), Cited(Nearest(store)))
       IN  thr' = [thr EXCEPT !["query"].pc = "done",
                              !["query"].result = res]
    /\ UNCHANGED << rag, store, last, fits, widths, epoch >>
    /\ RaceFrame

\* both requests have returned
RaceOver == \A t \in RaceThreads : thr[t].pc = "done"

\* a query made after both requests returned, with no other request
\* in flight
LaterQuery ==
    /\ RaceOver
    /\ \E q \in Questions, e \in QueryEnvs(rag) :
          /\ e.llm = "ok"
          /\ \E x \in {Query(rag, store, q, e)} :
                /\ rag' = x.rag
                /\ fits' = IF ~rag.is_fitted /\ x.rag.is_fitted
                           THEN fits + 1 ELSE fits
                /\ last' = [NoLast EXCEPT !.op = "query",
                               !.calls = << "query" >>,
                               !.first = x.result, !.first_fx = x.fx,
                               !.response =
                                   Annotate(x.result, FALSE, FALSE, "", ""),
                               !.pre_dim = IF store.entries = {} THEN 0
                                           ELSE store.dim,
                               !.pre_count = ChromaCount(store)]
    /\ UNCHANGED << store, thr, widths, epoch >>
    /\ RaceFrame

NextRace ==
    \/ RebuildBegin
    \/ ClearDelete
    \/ ClearCreate
    \/ ClearUnfit
    \/ IngestScan
    \/ IngestAdd
    \/ QueryBegin
    \/ QueryGet
    \/ QueryRun
    \/ \E t \in RaceThreads : EmbedCheck(t)
    \/ \E t \in RaceThreads : EmbedLoad(t)
    \/ \E t \in RaceThreads : EmbedFit(t)
    \/ \E t \in RaceThreads : EmbedSet(t)
    \/ \E t \in RaceThreads : EmbedTransform(t)
    \/ LaterQuery

SpecRace == InitRace /\ [][NextRace]_vars

\* C8: of two threads whose first embed calls meet the unfitted provider,
\* at most one fits the vectorizer, and the vectors those calls return
\* all have one width.
C8_FitExcluded ==
    /\ fits <= 1
    /\ Cardinality(widths) <= 1


(***************************************************************************)
(* get_rag_service called from request threads.  The handlers call it at   *)
(* the start of every request; it checks the module global, constructs     *)
(* the RAGService when the global is None, stores it and returns the       *)
(* global.  Under "python app.py" the main block has called it before the  *)
(* server accepts requests; under a WSGI server nothing has.               *)
(* A request thread record holds                                           *)
(*   pc     the statement the thread executes next                         *)
(*   calls  the calls of get_rag_service it has completed                  *)
(*   tmp    the instance its RAGService(...) expression constructed        *)
(*   got    the instances its calls returned                               *)
(***************************************************************************)
InitSingleton ==
    /\ rag = Construct(TRUE, 0)
    /\ store = EmptyStore
    /\ files = {}
    /\ last = NoLast
    /\ sinceClear = FALSE
    /\ thr = [t \in RaceThreads |-> IdleThread]
    /\ fits = 0
    /\ widths = {}
    /\ epoch = 0
    /\ \E started \in BOOLEAN :
          /\ rag_service = IF started THEN 1 ELSE 0
          /\ built = IF started THEN 1 ELSE 0
    /\ req = [t \in RequestThreads |-> IdleRequest]
    /\ sp = IdleSplit
    /\ ex = IdleExtract

\* what no step of get_rag_service changes
SingletonFrame ==
    UNCHANGED << rag, store, files, last, sinceClear, thr, fits, widths,
                 epoch, sp, ex >>

\* a handler calls get_rag_service()
CallGet(t) ==
    /\ req[t].pc = "idle"
    /\ req[t].calls < MaxCalls
    /\ req' = [req EXCEPT ![t].pc = "check"]
    /\ UNCHANGED << rag_service, built >>
    /\ SingletonFrame

\* "if rag_service is None:"
CheckNone(t) ==
    /\ req[t].pc = "check"
    /\ req' = [req EXCEPT ![t].pc = IF rag_service = 0 THEN "construct"
                                    ELSE "return"]
    /\ UNCHANGED << rag_service, built >>
    /\ SingletonFrame

\* the expression RAGService(ollama_base_url=..., ...) is evaluated
ConstructService(t) ==
    /\ req[t].pc = "construct"
    /\ built' = built + 1
    /\ req' = [req EXCEPT ![t].pc = "assign", ![t].tmp = built + 1]
    /\ UNCHANGED rag_service
    /\ SingletonFrame

\* "rag_service = ..." stores the new instance in the global
AssignGlobal(t) ==
    /\ req[t].pc = "assign"
    /\ rag_service' = req[t].tmp
    /\ req' = [req EXCEPT ![t].pc = "return"]
    /\ UNCHANGED built
    /\ SingletonFrame

\* "return rag_service"
ReturnService(t) ==
    /\ req[t].pc = "return"
    /\ req' = [req EXCEPT ![t].pc = "idle", ![t].calls = @ + 1,
                          ![t].got = @ \cup {rag_service}]
    /\ UNCHANGED << rag_service, built >>
    /\ SingletonFrame

NextSingleton ==
    \/ \E t \in RequestThreads : CallGet(t)
    \/ \E t \in RequestThreads : CheckNone(t)
    \/ \E t \in RequestThreads : ConstructService(t)
    \/ \E t \in RequestThreads : AssignGlobal(t)
    \/ \E t \in RequestThreads : ReturnService(t)

SpecSingleton == InitSingleton /\ [][NextSingleton]_vars

\* C9: at most one RAGService is constructed, and all calls of
\* get_rag_service, from whichever thread, return one and the same
\* instance.
C9_OneInstance ==
    /\ built <= 1
    /\ Cardinality(UNION { req[t].got : t \in RequestThreads }) <= 1

\* C10: once the rebuild and the query racing it have both returned, a
\* later query on the rebuilt, non-empty collection does not fail with a
\* dimension mismatch.
C10_MismatchTransient ==
    (RaceOver /\ last.op = "query" /\ store.entries # {}) =>
        ~last.first.dimension_mismatch

(***************************************************************************)
(* The Local-Lexical engine under sequential use, with the provider's two  *)
(* embed methods also called directly (embed_model is a public attribute   *)
(* of the engine).  Of such a call last keeps the width returned (q_dim)   *)
(* and whether the provider was fitted when the call began (pre_fitted).   *)
(***************************************************************************)
\* the batches get_text_embedding_batch is called with
Batches == {{{"a"}, {"q"}}, {{"b"}}}

InitProvider ==
    /\ rag = Construct(TRUE, 0)
    /\ store = EmptyStore
    /\ files = {}
    /\ last = NoLast
    /\ sinceClear = FALSE
    /\ thr = [t \in RaceThreads |-> IdleThread]
    /\ fits = 0
    /\ widths = {}
    /\ epoch = 0
    /\ rag_service = 1
    /\ built = 1
    /\ req = [t \in RequestThreads |-> IdleRequest]
    /\ sp = IdleSplit
    /\ ex = IdleExtract

\* rag.embed_model.get_text_embedding(text)
EmbedCall ==
    /\ rag.offline_mode
    /\ \E text \in Questions :
       \E x \in {GetTextEmbedding(rag, store, text)} :
           /\ rag' = x.rag
           /\ last' = [NoLast EXCEPT !.op = "embed",
                          !.first_fx = [NoFx EXCEPT !.embedded = TRUE,
                                                    !.q_dim = x.dim],
                          !.pre_fitted = rag.is_fitted]
    /\ UNCHANGED << store, files, sinceClear >>
    /\ UNCHANGED concVars

\* rag.embed_model.get_text_embedding_batch(texts)
EmbedBatchCall ==
    /\ rag.offline_mode
    /\ \E texts \in Batches :
       \E x \in {GetTextEmbeddingBatch(rag, store, texts)} :
           /\ rag' = x.rag
           /\ last' = [NoLast EXCEPT !.op = "embed_batch",
                          !.first_fx = [NoFx EXCEPT !.embedded = TRUE,
                                                    !.q_dim = x.dim],
                          !.pre_fitted = rag.is_fitted]
    /\ UNCHANGED << store, files, sinceClear >>
    /\ UNCHANGED concVars

NextProvider ==
    \/ EmbedCall
    \/ EmbedBatchCall
    \/ QueryCall
    \/ UploadDocument
    \/ PutFile
    \/ RebuildIndex
    \/ ClearIndexCall

SpecProvider == InitProvider /\ [][NextProvider]_vars

\* the step just taken ran a clear_index that returned true
StepCleared == last'.op \in {"clear", "rebuild", "query_rag"} /\ last'.clear_ok

\* the step just taken called the provider directly
StepEmbedded == last'.op \in {"embed", "embed_batch"}

\* C11: under sequential use of the Local-Lexical engine a step that
\* runs no successful clear_index leaves a fitted vectorizer fitted, with
\* the vocabulary it had; an embed call (single or batch) on the unfitted
\* provider fits it, and the vector it returns has the width of the
\* vocabulary the provider keeps.
C11_FitOnce ==
    [][/\ (rag.is_fitted /\ ~StepCleared) =>
              (rag'.is_fitted /\ rag'.vocabulary = rag.vocabulary)
       /\ StepEmbedded =>
              /\ rag'.is_fitted
              /\ last'.first_fx.q_dim = Width(rag'.vocabulary)
              /\ (last'.pre_fitted <=> rag.is_fitted)]_vars

\* C11 witness: a batch call on a provider an earlier call had fitted on
\* other texts, which returned the earlier vocabulary's width
C11_Witness ==
    /\ last.op = "embed_batch"
    /\ last.pre_fitted
    /\ store.entries # {}
    /\ ~({"a", "q"} \subseteq rag.vocabulary) /\ ~("b" \in rag.vocabulary)
    /\ last.first_fx.q_dim = Width(rag.vocabulary)

(***************************************************************************)
(* The provider variant over the life of a process: construction, then     *)
(* the engine calls query, add_documents, clear_index and health_check.    *)
(***************************************************************************)
\* GET /api/health: RAGService.health_check, which completes a test
\* prompt on the LLM (llm_ok: it does not raise) and counts the documents
HealthCheck ==
    /\ \E llm_ok \in BOOLEAN :
          last' = [NoLast EXCEPT !.op = "health",
                      !.calls = IF llm_ok THEN << "get_document_count" >>
                                ELSE << >>,
                      !.ret = llm_ok,
                      !.pre_count = IF llm_ok
                                    THEN get_document_count(rag, store)
                                    ELSE 0]
    /\ UNCHANGED << rag, store, files, sinceClear >>
    /\ UNCHANGED concVars

NextVariant ==
    \/ Restart
    \/ HealthCheck
    \/ QueryCall
    \/ UploadDocument
    \/ PutFile
    \/ ClearIndexCall

SpecVariant == Init /\ [][NextVariant]_vars

\* the last step constructed the engine
Constructed == last.op \in {"construct", "restart"}

\* C12: construction leaves the engine in Local-Lexical mode exactly when
\* the connectivity probe failed or the remote encoder could not be
\* loaded, and no query, ingest, clear_index or health_check call changes
\* the variant.
C12_VariantFixed ==
    /\ [](Constructed =>
             (rag.offline_mode <=>
                 \/ ~last.setup.has_internet
                 \/ ~(last.setup.loaded \/ last.setup.cached)))
    /\ [][last'.op # "restart" =>
             rag'.offline_mode = rag.offline_mode]_vars

\* C12 witness: a health check on an engine that holds documents and is
\* in Local-Lexical mode
C12_Witness ==
    /\ last.op = "health"
    /\ last.ret
    /\ last.pre_count > 0
    /\ rag.offline_mode

(***************************************************************************)
(* RAGService._split_text_simple(text, chunk_size, overlap), one step per  *)
(* iteration of its while loop.  Offsets are Python's (the first           *)
(* character has offset 0; character k of the text is text[k + 1]).        *)
(* sp holds the arguments, the local start, and of every iteration the     *)
(* window text[from:to] it sliced (wins) and, when the stripped slice was  *)
(* not empty, the offsets lo..hi the chunk keeps (chunks).                 *)
(***************************************************************************)
\* the longest text split
MaxTextLen == 4
\* the largest chunk_size
MaxChunk == 3
\* "for i in range(min(100, chunk_size - end))"
LookBack == 100

\* the characters of the texts: a letter, a sentence terminator, a blank
Alphabet == {"x", ".", " "}

\* the characters of '.。\n' that strings of the model can hold
Terminators == {".", "\n"}

Texts == UNION { [1..n -> Alphabet] : n \in 1..MaxTextLen }

MinOf(S) == CHOOSE x \in S : \A y \in S : x <= y

MaxOf(S) == CHOOSE x \in S : \A y \in S : x >= y

\* the end of the window that starts at start, after the search for a
\* sentence boundary
CutPoint(text, chunk_size, start) ==
    LET end == start + chunk_size
        hits == { i \in 0..(Min(LookBack, chunk_size - end) - 1) :
                     text[end - i + 1] \in Terminators }
    IN  IF end < Len(text) /\ hits # {} THEN end - MinOf(hits) + 1 ELSE end

\* the offsets of text[from:to] that strip() keeps
Kept(text, from, to) ==
    { k \in from..(Min(to, Len(text)) - 1) : text[k + 1] \notin Whitespace }

\* mutant of NextStart: the next window starts after the overlap
NextStartPast(end, overlap) == end + overlap + 1

\* "start = end - overlap"
NextStart(end, overlap) == end - overlap

\* the arguments: any text, and 0 <= overlap < chunk_size
InitSplit ==
    /\ rag = Construct(TRUE, 0)
    /\ store = EmptyStore
    /\ files = {}
    /\ last = NoLast
    /\ sinceClear = FALSE
    /\ thr = [t \in RaceThreads |-> IdleThread]
    /\ fits = 0
    /\ widths = {}
    /\ epoch = 0
    /\ rag_service = 1
    /\ built = 1
    /\ req = [t \in RequestThreads |-> IdleRequest]
    /\ ex = IdleExtract
    /\ \E text \in Texts, c \in 1..MaxChunk :
       \E o \in 0..(c - 1) :
          sp = [IdleSplit EXCEPT !.pc = "start", !.text = text,
                                 !.chunk_size = c, !.overlap = o]

SplitFrame ==
    UNCHANGED << rag, store, files, last, sinceClear, thr, fits, widths,
                 epoch, rag_service, built, req, ex >>

\* "if len(text) <= chunk_size: return [text]"
SplitWhole ==
    /\ sp.pc = "start"
    /\ Len(sp.text) <= sp.chunk_size
    /\ sp' = [sp EXCEPT !.pc = "done",
                        !.chunks = << [lo |-> 0, hi |-> Len(sp.text) - 1] >>]
    /\ SplitFrame

\* "chunks = []; start = 0" and the first test of the while condition
SplitEnter ==
    /\ sp.pc = "start"
    /\ Len(sp.text) > sp.chunk_size
    /\ sp' = [sp EXCEPT !.pc = "loop", !.start = 0]
    /\ SplitFrame

\* one iteration of the while loop
SplitWindow ==
    /\ sp.pc = "loop"
    /\ LET end == CutPoint(sp.text, sp.chunk_size, sp.start)
           kept == Kept(sp.text, sp.start, end)
           next == NextStart(end, sp.overlap)
       IN  sp' = [sp EXCEPT
                     !.wins = Append(@, [from |-> sp.start, to |-> end]),
                     !.chunks = IF kept = {} THEN @
                                ELSE Append(@, [lo |-> MinOf(kept),
                                                hi |-> MaxOf(kept)]),
                     !.start = next,
                     !.pc = IF next >= Len(sp.text) THEN "done" ELSE "loop"]
    /\ SplitFrame

NextSplit ==
    \/ SplitWhole
    \/ SplitEnter
    \/ SplitWindow

\* the loop is sequential code: an enabled step is taken
SpecSplit == InitSplit /\ [][NextSplit]_vars /\ WF_vars(NextSplit)

\* offset k lies in one of the returned chunks
InChunk(k) == \E i \in DOMAIN sp.chunks : sp.chunks[i].lo <= k /\ k <= sp.chunks[i].hi

\* offset k lies in one of the windows sliced
InWindow(k) == \E i \in DOMAIN sp.wins : sp.wins[i].from <= k /\ k < sp.wins[i].to

\* C13: for 0 <= overlap < chunk_size and a text longer than chunk_size
\* the split terminates, the window starts strictly increase, every
\* character lies in a window and every character that is not
\* whitespace lies in a returned chunk.
C13_SplitCovers ==
    /\ <>(sp.pc = "done")
    /\ [](\A i, j \in DOMAIN sp.wins :
             i < j => sp.wins[i].from < sp.wins[j].from)
    /\ []((sp.pc = "done" /\ Len(sp.text) > sp.chunk_size) =>
             \A k \in 0..(Len(sp.text) - 1) :
                /\ InWindow(k)
                /\ sp.text[k + 1] \notin Whitespace => InChunk(k))

\* C13 witness: a finished split of several overlapping windows, one of
\* which was dropped as blank
C13_Witness ==
    /\ sp.pc = "done"
    /\ sp.overlap > 0
    /\ Len(sp.wins) >= 3
    /\ Len(sp.chunks) < Len(sp.wins)
    /\ Len(sp.chunks) >= 2

\* offsets of the sentence terminators in the 100 characters before the
\* end from + chunk_size of the window w
TerminatorsBefore(w) ==
    { k \in 0..(Len(sp.text) - 1) :
         /\ sp.text[k + 1] \in Terminators
         /\ w.from <= k /\ k < w.from + sp.chunk_size
         /\ k >= w.from + sp.chunk_size - LookBack }

\* C14: a window whose end from + chunk_size falls strictly inside the
\* text, with a sentence terminator in the 100 characters before that
\* end, is cut just after the terminator nearest to the end.
C14_CutAtTerminator ==
    \A i \in DOMAIN sp.wins :
        LET w == sp.wins[i]
        IN  (w.from + sp.chunk_size < Len(sp.text) /\ TerminatorsBefore(w) # {})
                => w.to = MaxOf(TerminatorsBefore(w)) + 1

\* "if len(chunk.strip()) < 10": the length below which the ingestion
\* loop skips a chunk
MinChunkLen == 10

\* C22: for a text longer than chunk_size the split returns no chunk
\* that, trimmed, is empty or shorter than 10 characters.
C22_NoShortChunk ==
    (sp.pc = "done" /\ Len(sp.text) > sp.chunk_size) =>
        \A i \in DOMAIN sp.chunks :
            /\ sp.chunks[i].lo <= sp.chunks[i].hi
            /\ sp.chunks[i].hi - sp.chunks[i].lo + 1 >= MinChunkLen

(***************************************************************************)
(* Ingestion runs: add_documents() over a documents directory that may     *)
(* hold two files of one stem, with files whose processing raises.  Of an  *)
(* ingestion last keeps the order the files were visited in, the files     *)
(* that raised (bad), whether opening the store raised (fault) and the     *)
(* value returned (ret).                                                   *)
(***************************************************************************)
InitIngest ==
    /\ \E e \in Setups, rdim \in 1..MaxRemoteDim :
          rag = Construct(SetupEmbedding(e), rdim)
    /\ store = EmptyStore
    /\ files \in SUBSET IngestFiles
    /\ last = NoLast
    /\ sinceClear = FALSE
    /\ thr = [t \in RaceThreads |-> IdleThread]
    /\ fits = 0
    /\ widths = {}
    /\ epoch = 0
    /\ rag_service = 1
    /\ built = 1
    /\ req = [t \in RequestThreads |-> IdleRequest]
    /\ sp = IdleSplit
    /\ ex = IdleExtract

\* the sets of files that raise in one run: none, one file, or all
\* (the provider is unusable)
BadSets(S) == {{}, S} \cup { {f} : f \in S }

\* the ordinals at which a file of bad can raise: 0, and the ordinals of
\* the chunks that are embedded
RaiseOrdinals(bad) ==
    {0} \cup { n - 1 : n \in UNION { { k \in DOMAIN ExtractChunks(f) :
                                          ExtractChunks(f)[k].long } :
                                      f \in bad } }

\* rag.add_documents()
IngestCall ==
    /\ \E order \in Orders(IngestSet(rag, files)), fault \in BOOLEAN :
       \E bad \in (IF fault THEN {{}} ELSE BadSets(IngestSet(rag, files))) :
       \E at \in (IF rag.offline_mode THEN RaiseOrdinals(bad) ELSE {0}) :
       \E x \in {AddDocumentsWith(rag, store, order, fault, bad, at)} :
           /\ rag' = x.rag /\ store' = x.store
           /\ last' = [NoLast EXCEPT !.op = "ingest",
                          !.calls = << "add_documents" >>,
                          !.ret = x.ret, !.order = order, !.bad = bad,
                          !.at = at, !.fault = fault]
    /\ sinceClear' = FALSE
    /\ UNCHANGED files
    /\ UNCHANGED concVars

NextIngest ==
    \/ IngestCall
    \/ ClearIndexCall
    \/ QueryCall

SpecIngest == InitIngest /\ [][NextIngest]_vars

\* the files of the sequence fseq
FilesOf(fseq) == { fseq[n] : n \in DOMAIN fseq }

\* the ordinals of the chunks of f that the chunk loop stores
StoredOrdinals(f) ==
    { n \in DOMAIN ExtractChunks(f) : ExtractChunks(f)[n].long }

\* C15: in an ingestion by the Local-Lexical engine two chunks of
\* different files, or of different ordinals, are given different ids.
C15_IdsUnique ==
    (last.op = "ingest" /\ rag.offline_mode) =>
        \A f1, f2 \in FilesOf(last.order) :
        \A n1 \in StoredOrdinals(f1), n2 \in StoredOrdinals(f2) :
            (f1 # f2 \/ n1 # n2) => ChunkId(f1, n1 - 1) # ChunkId(f2, n2 - 1)

\* a file of the ingestion at position n of the order yields chunks
Yields(f) == StoredOrdinals(f) # {}

\* C17: an ingestion over files that yield chunks returns false when
\* every embed call raises, and returns true when the file loop ran to
\* its end with only individual files skipped.
C17_IngestReturn ==
    (last.op = "ingest" /\ ~last.fault /\ last.at = 0
        /\ \E f \in FilesOf(last.order) : Yields(f)) =>
        /\ (\A f \in FilesOf(last.order) : f \in last.bad) => ~last.ret
        /\ (rag.offline_mode
              /\ \E f \in FilesOf(last.order) : f \notin last.bad) => last.ret

\* C18: in an ingestion a file that raised does not keep a later file
\* from being processed: every later file that raises nothing and yields
\* chunks has an entry of its own for each of its chunks.
C18_LaterFilesAdded ==
    (last.op = "ingest" /\ ~last.fault /\ last.at = 0) =>
        \A m, n \in DOMAIN last.order :
            (m < n /\ last.order[m] \in last.bad
                   /\ last.order[n] \notin last.bad) =>
                \A k \in StoredOrdinals(last.order[n]) :
                    \E e \in store.entries :
                        /\ e.file = last.order[n]
                        /\ e.doc = ExtractChunks(last.order[n])[k].text

\* ---------------------------------------------------------------------
\* the Generative Answerer failing inside a query

\* C16: a query whose retrieval returned at least one hit, so that the
\* Generative Answerer was invoked, ends in success whatever the
\* answerer did, and its answer is the answerer's text or, when the
\* answerer raised, timed out or returned nothing, the fixed template.
C16_TemplateFallback ==
    (Queried /\ last.first_fx.generated) =>
        /\ last.first.success
        /\ last.first.answer \in {"llm", "template"}

\* ---------------------------------------------------------------------
\* clear_index called twice

\* the last step was a clear_index call that returned True
Cleared == last.op = "clear" /\ last.clear_ok

\* C19: after a successful clear_index the collection exists and holds no
\* entry, a Local-Lexical provider is unfitted, and a second clear_index
\* called in that state returns True and leaves the engine and the
\* store exactly as they are.
C19_ClearIdempotent ==
    /\ [](Cleared =>
             /\ store = EmptyStore
             /\ (rag.offline_mode => ~rag.is_fitted)
             /\ ClearIndex(rag, store, "none")
                    = [rag |-> rag, store |-> store, ret |-> TRUE])
    /\ [][(Cleared /\ last'.op = "clear" /\ last'.clear_ok) =>
             (rag' = rag /\ store' = store)]_vars

\* C19 witness: a Local-Lexical engine after a successful clear_index that
\* directly followed a successful clear_index
C19_Witness ==
    /\ Cleared
    /\ last.pre_cleared
    /\ rag.offline_mode
    /\ store = EmptyStore

\* ---------------------------------------------------------------------
\* the blank question

\* C20: a query call with an empty or whitespace-only question returns a
\* failure with the validation error, and it embeds nothing, reads
\* nothing from the store and generates nothing: the engine, with the
\* provider's fitted status, and the store are as they were.
C20_BlankRejected ==
    [][(last'.op = "query" /\ last'.blank) =>
          /\ ~last'.first.success
          /\ last'.first.error = "empty_question"
          /\ last'.first_fx = NoFx
          /\ rag' = rag
          /\ store' = store]_vars

\* C20 witness: a blank question was put to a Local-Lexical engine that
\* holds documents
C20_Witness ==
    /\ last.op = "query"
    /\ last.blank
    /\ rag.offline_mode
    /\ store.entries # {}

\* ---------------------------------------------------------------------
\* a question on a topic no stored document has

\* C21: after an ingestion into a Local-Lexical engine, a question that
\* shares no term with any stored chunk gets the "not found" failure from
\* the collection that is not empty.
C21_DisjointNotFound ==
    (last.op = "ingest" /\ rag.offline_mode /\ store.entries # {}) =>
        \A q \in Questions, env \in QueryEnvs(rag) :
            (\A e \in store.entries : e.doc \cap q = {}) =>
                NotFound(Query(rag, store, q, env).result)

(***************************************************************************)
(* RAGService._extract_text_simple, statement by statement.  A file is the *)
(* sequence of its pages (of its parts, for a text file); a page is its    *)
(* text, or Unreadable when reading it raises.  The text returned is the   *)
(* sequence of the page texts it concatenates, << >> for "".               *)
(***************************************************************************)
\* the most pages a file has
MaxPages == 3

PageTexts == {"x", "y"}

\* a page whose extract_text() raises, a part of a text file that is not
\* UTF-8
Unreadable == "bad"

Documents ==
    UNION { [1..n -> PageTexts \cup {Unreadable}] : n \in 0..MaxPages }

ExtractSuffixes == {".txt", ".md", ".pdf", ".xyz"}

Readable(page) == page # Unreadable

InitExtract ==
    /\ rag = Construct(TRUE, 0)
    /\ store = EmptyStore
    /\ files = {}
    /\ last = NoLast
    /\ sinceClear = FALSE
    /\ thr = [t \in RaceThreads |-> IdleThread]
    /\ fits = 0
    /\ widths = {}
    /\ epoch = 0
    /\ rag_service = 1
    /\ built = 1
    /\ req = [t \in RequestThreads |-> IdleRequest]
    /\ sp = IdleSplit
    /\ \E sfx \in ExtractSuffixes, d \in Documents, lib \in BOOLEAN :
          ex = [IdleExtract EXCEPT !.pc = "start", !.suffix = sfx,
                                   !.pages = d, !.pypdf = lib]

ExtractFrame ==
    UNCHANGED << rag, store, files, last, sinceClear, thr, fits, widths,
                 epoch, rag_service, built, req, sp >>

\* a .txt or .md file: f.read(), and the except clause of the method when
\* the bytes do not decode
ExtractText ==
    /\ ex.pc = "start"
    /\ ex.suffix \in {".txt", ".md"}
    /\ ex' = [ex EXCEPT !.pc = "done",
                        !.ret = IF \A i \in DOMAIN ex.pages :
                                      Readable(ex.pages[i])
                                THEN ex.pages ELSE << >>]
    /\ ExtractFrame

\* a .pdf file: "import pypdf", which ends the call with "" when the
\* library is missing, then PdfReader(f) and text = ""
ExtractOpenPdf ==
    /\ ex.pc = "start"
    /\ ex.suffix = ".pdf"
    /\ ex' = IF ex.pypdf
             THEN [ex EXCEPT !.pc = "pages", !.n = 1, !.text = << >>]
             ELSE [ex EXCEPT !.pc = "done", !.ret = << >>]
    /\ ExtractFrame

\* one iteration of "for page in reader.pages: text += page.extract_text()
\* + '\n'"; an exception of extract_text leaves the loop for the except
\* clause of the method, which returns ""
ExtractPage ==
    /\ ex.pc = "pages"
    /\ ex.n <= Len(ex.pages)
    /\ ex' = IF Readable(ex.pages[ex.n])
             THEN [ex EXCEPT !.text = Append(@, ex.pages[ex.n]), !.n = @ + 1]
             ELSE [ex EXCEPT !.pc = "done", !.ret = << >>]
    /\ ExtractFrame

\* "return text" after the last page
ExtractReturn ==
    /\ ex.pc = "pages"
    /\ ex.n > Len(ex.pages)
    /\ ex' = [ex EXCEPT !.pc = "done", !.ret = ex.text]
    /\ ExtractFrame

\* any other suffix: a warning and ""
ExtractOther ==
    /\ ex.pc = "start"
    /\ ex.suffix \notin {".txt", ".md", ".pdf"}
    /\ ex' = [ex EXCEPT !.pc = "done", !.ret = << >>]
    /\ ExtractFrame

NextExtract ==
    \/ ExtractText
    \/ ExtractOpenPdf
    \/ ExtractPage
    \/ ExtractReturn
    \/ ExtractOther

SpecExtract == InitExtract /\ [][NextExtract]_vars

\* C23: the text returned for a PDF is the text of its readable pages in
\* their order; a page whose extraction fails is left out and the other
\* pages are still returned.
C23_UnreadablePageSkipped ==
    (ex.pc = "done" /\ ex.suffix = ".pdf" /\ ex.pypdf) =>
        ex.ret = SelectSeq(ex.pages, Readable)

\* ---------------------------------------------------------------------
\* POST /api/index/rebuild

\* C24: when the rebuild handler answers with success, no entry of the
\* earlier index is left: every entry of the collection comes from a
\* file that lies in the documents directory.
C24_RebuildFromScratch ==
    (last.op = "rebuild" /\ last.ret) =>
        \A e \in store.entries : e.file \in files

\* ---------------------------------------------------------------------
\* one Local-Lexical engine, one thread, no restart

\* C25: from an empty store, in every sequence of add_documents, query
\* and clear_index calls on one Local-Lexical engine, a collection that
\* is not empty belongs to a fitted provider whose width is the width of
\* every stored vector, and no query returns the dimension mismatch.
C25_NoMismatchSequential ==
    rag.offline_mode =>
        /\ store.entries # {} =>
              /\ rag.is_fitted
              /\ \A e \in store.entries : e.dim = Width(rag.vocabulary)
        /\ last.op = "query" => ~last.first.dimension_mismatch

\* C25 witness: a query answered from a collection of several entries
\* that was filled after the provider had been fitted by a query
C25_Witness ==
    /\ rag.offline_mode
    /\ last.op = "query"
    /\ last.first.success
    /\ Cardinality(store.entries) >= 2
    /\ "q" \in rag.vocabulary

\* ---------------------------------------------------------------------
\* the repair of query_rag on a store of another width

\* C26: a query_rag request to a Local-Lexical engine whose clear_index
\* and add_documents both returned True ends with a collection that is
\* empty or holds only vectors of the provider's width, and its second
\* query does not return the dimension mismatch.
C26_RepairEndsConsistent ==
    (last.op = "query_rag" /\ rag.offline_mode
        /\ last.clear_ok /\ last.add_ok) =>
        /\ \A e \in store.entries :
              rag.is_fitted /\ e.dim = Width(rag.vocabulary)
        /\ ~last.second.dimension_mismatch

\* C26 witness: the request found stored vectors of another width,
\* repaired, and left a collection of the provider's width that is not
\* empty
C26_Witness ==
    /\ last.op = "query_rag"
    /\ rag.offline_mode
    /\ last.first.dimension_mismatch
    /\ last.clear_ok /\ last.add_ok
    /\ store.entries # {}
    /\ last.pre_dim # store.dim
    /\ last.second.success

\* ---------------------------------------------------------------------
\* the repair repeated request after request

\* the documents directory itself holds a file, and no file under it
\* yields a chunk that ingestion keeps
NothingToIndex ==
    /\ FileCount(files) > 0
    /\ \A f \in ScanDocuments(files) : ~Yields(f)

\* the request cleared, ingested, queried again and failed again
FullCycleFailed ==
    /\ last.calls = << "query", "get_document_count", "clear_index",
                       "add_documents", "query" >>
    /\ ~last.response.result.success
    /\ last.response.rebuild_attempted

C28_QueryKeepsEntries ==
    [][last'.op = "query" =>
          /\ store' = store
          /\ rag' = [rag EXCEPT !.is_fitted = rag'.is_fitted,
                                !.vocabulary = rag'.vocabulary]
          /\ ~rag.offline_mode => rag' = rag]_vars

\* C28 witness: a query that failed with the dimension mismatch on a
\* collection that holds entries
C28_Witness ==
    /\ last.op = "query"
    /\ last.first.dimension_mismatch
    /\ store.entries # {}
    /\ rag.is_fitted

\* ---------------------------------------------------------------------
\* when the Generative Answerer is called

\* C29: a query call of a Local-Lexical engine calls the Generative
\* Answerer at most once, and only after the retrieval from a collection
\* that holds entries; a call that returns the validation error, a "not
\* found" failure or the dimension mismatch does not call it.
C29_AnswererOnceAfterHits ==
    (last.op = "query" /\ rag.offline_mode) =>
        /\ last.first_fx.llm_calls <= 1
        /\ last.first_fx.llm_calls > 0 =>
              (last.first_fx.retrieved /\ last.pre_count > 0)
        /\ (\/ last.first.error = "empty_question"
            \/ NotFound(last.first)
            \/ last.first.dimension_mismatch) =>
              last.first_fx.llm_calls = 0

\* C29 witness: the answerer was called, gave nothing, and the query
\* answered with the template
C29_Witness ==
    /\ last.op = "query"
    /\ rag.offline_mode
    /\ last.first_fx.llm_calls = 1
    /\ last.first.success
    /\ last.first.answer = "template"

\* ---------------------------------------------------------------------
\* a file that raises part way through its chunks

\* the file f of the run raises: it is one of bad and the chunk of the
\* ordinal at is one the loop embeds
RaisesAt(f, bad, at) == f \in bad /\ (at + 1) \in StoredOrdinals(f)

\* C30: when the embedding of the chunk of ordinal k of a file raises in
\* an ingestion of a Local-Lexical engine, the ids of the chunks of the
\* file before k are in the collection, the call adds no entry for the
\* chunks of the file from k on, the files after it are processed, and
\* the call returns True.
C30_PartialFileKept ==
    [][(last'.op = "ingest" /\ rag.offline_mode /\ ~last'.fault) =>
          /\ last'.ret
          /\ \A n \in DOMAIN last'.order :
                RaisesAt(last'.order[n], last'.bad, last'.at) =>
                   /\ \A k \in StoredOrdinals(last'.order[n]) :
                         k - 1 < last'.at =>
                            \E e \in store'.entries :
                               e.id = ChunkId(last'.order[n], k - 1)
                   /\ \A e \in store'.entries \ store.entries :
                         ~(e.file = last'.order[n] /\ e.id[2] >= last'.at)
                   /\ \A m \in DOMAIN last'.order :
                         (m > n /\ last'.order[m] \notin last'.bad) =>
                            \A k \in StoredOrdinals(last'.order[m]) :
                               \E e \in store'.entries :
                                  e.id = ChunkId(last'.order[m], k - 1)]_vars

\* C30 witness: a.txt raised at its third chunk; its first chunk is in
\* the collection, its third is not, and the file after it was stored
C30_Witness ==
    /\ last.op = "ingest"
    /\ rag.offline_mode
    /\ last.bad = {"a.txt"}
    /\ last.at > 0
    /\ Len(last.order) >= 2
    /\ last.order[1] = "a.txt"
    /\ \E e \in store.entries : e.file = "a.txt" /\ e.id = ChunkId("a.txt", 0)
    /\ \A e \in store.entries : e.id # ChunkId("a.txt", last.at)
    /\ \E e \in store.entries : e.file = last.order[2]

====
